---------------------------- MODULE Spec2Model ----------------------------
(***************************************************************************)
(* A model of openapi2jsonschema's process() (command.py): the conversion  *)
(* of a parsed OpenAPI document into _definitions.json, one schema file    *)
(* per type and all.json.                                                  *)
(*                                                                         *)
(* Python strings that the code takes apart (split, lower, replace, "<",   *)
(* concatenation) are sequences of one-character strings.  Dictionaries    *)
(* are functions whose domain is the set of keys present; the ordered      *)
(* dictionary `components` is a sequence of [title, def] records in        *)
(* insertion order.  None and "" are both the empty sequence (both falsy). *)
(***************************************************************************)
EXTENDS Integers, Sequences, FiniteSets, TLC

(***************************************************************************)
(* Characters, in code-point order.                                        *)
(***************************************************************************)
Ascii == <<"#", "-", ".", "/", "0", "1", "2", "3", "4", "5", "6", "7", "8", "9", "A", "B", "C", "D", "E", "F", "G", "H", "I", "J", "K", "L", "M", "N", "O", "P", "Q", "R", "S", "T", "U", "V", "W", "X", "Y", "Z", "_", "a", "b", "c", "d", "e", "f", "g", "h", "i", "j", "k", "l", "m", "n", "o", "p", "q", "r", "s", "t", "u", "v", "w", "x", "y", "z">>
UpperCase == <<"A", "B", "C", "D", "E", "F", "G", "H", "I", "J", "K", "L", "M", "N", "O", "P", "Q", "R", "S", "T", "U", "V", "W", "X", "Y", "Z">>
LowerCase == <<"a", "b", "c", "d", "e", "f", "g", "h", "i", "j", "k", "l", "m", "n", "o", "p", "q", "r", "s", "t", "u", "v", "w", "x", "y", "z">>

(* string literals of command.py *)
t_IntOrString == <<"i", "o", ".", "k", "8", "s", ".", "a", "p", "i", "m", "a", "c", "h", "i", "n", "e", "r", "y", ".", "p", "k", "g", ".", "u", "t", "i", "l", ".", "i", "n", "t", "s", "t", "r", ".", "I", "n", "t", "O", "r", "S", "t", "r", "i", "n", "g">>
t_Quantity == <<"i", "o", ".", "k", "8", "s", ".", "a", "p", "i", "m", "a", "c", "h", "i", "n", "e", "r", "y", ".", "p", "k", "g", ".", "a", "p", "i", ".", "r", "e", "s", "o", "u", "r", "c", "e", ".", "Q", "u", "a", "n", "t", "i", "t", "y">>
s_pkg == <<"p", "k", "g">>
s_kubernetes == <<"k", "u", "b", "e", "r", "n", "e", "t", "e", "s">>
s_core == <<"c", "o", "r", "e">>
s_api == <<"a", "p", "i">>
s_jsonschemaprops == <<"j", "s", "o", "n", "s", "c", "h", "e", "m", "a", "p", "r", "o", "p", "s">>
s_jsonschemapropsorarray == <<"j", "s", "o", "n", "s", "c", "h", "e", "m", "a", "p", "r", "o", "p", "s", "o", "r", "a", "r", "r", "a", "y">>
s_customresourcevalidation == <<"c", "u", "s", "t", "o", "m", "r", "e", "s", "o", "u", "r", "c", "e", "v", "a", "l", "i", "d", "a", "t", "i", "o", "n">>
s_customresourcedefinition == <<"c", "u", "s", "t", "o", "m", "r", "e", "s", "o", "u", "r", "c", "e", "d", "e", "f", "i", "n", "i", "t", "i", "o", "n">>
s_customresourcedefinitionspec == <<"c", "u", "s", "t", "o", "m", "r", "e", "s", "o", "u", "r", "c", "e", "d", "e", "f", "i", "n", "i", "t", "i", "o", "n", "s", "p", "e", "c">>
s_customresourcedefinitionlist == <<"c", "u", "s", "t", "o", "m", "r", "e", "s", "o", "u", "r", "c", "e", "d", "e", "f", "i", "n", "i", "t", "i", "o", "n", "l", "i", "s", "t">>
s_jsonschemapropsorstringarray == <<"j", "s", "o", "n", "s", "c", "h", "e", "m", "a", "p", "r", "o", "p", "s", "o", "r", "s", "t", "r", "i", "n", "g", "a", "r", "r", "a", "y">>
s_jsonschemapropsorbool == <<"j", "s", "o", "n", "s", "c", "h", "e", "m", "a", "p", "r", "o", "p", "s", "o", "r", "b", "o", "o", "l">>
s_components_schemas == <<"#", "/", "c", "o", "m", "p", "o", "n", "e", "n", "t", "s", "/", "s", "c", "h", "e", "m", "a", "s", "/">>
s_definitions_ptr == <<"#", "/", "d", "e", "f", "i", "n", "i", "t", "i", "o", "n", "s", "/">>
s_json == <<".", "j", "s", "o", "n">>
s_definitions_json == <<"_", "d", "e", "f", "i", "n", "i", "t", "i", "o", "n", "s", ".", "j", "s", "o", "n">>
s_all_json == <<"a", "l", "l", ".", "j", "s", "o", "n">>
s_3 == <<"3">>
s_dash == <<"-">>
s_slash == <<"/">>

None == <<>>

Ord(c) == CHOOSE i \in 1..Len(Ascii) : Ascii[i] = c

(* str.__lt__: lexicographic comparison by code point *)
RECURSIVE StrLess(_, _)
StrLess(a, b) ==
    IF Len(b) = 0 THEN FALSE
    ELSE IF Len(a) = 0 THEN TRUE
    ELSE IF a[1] # b[1] THEN Ord(a[1]) < Ord(b[1])
    ELSE StrLess(Tail(a), Tail(b))

(* str.split(sep) for a one-character separator *)
RECURSIVE split(_, _)
split(s, sep) ==
    IF \A i \in 1..Len(s) : s[i] # sep THEN <<s>>
    ELSE LET i == CHOOSE i \in 1..Len(s) :
                      s[i] = sep /\ \A j \in 1..(i - 1) : s[j] # sep
         IN  <<SubSeq(s, 1, i - 1)>> \o split(SubSeq(s, i + 1, Len(s)), sep)

(* str.lower() *)
lower(s) ==
    [i \in 1..Len(s) |->
        IF \E k \in 1..Len(UpperCase) : UpperCase[k] = s[i]
        THEN LowerCase[CHOOSE k \in 1..Len(UpperCase) : UpperCase[k] = s[i]]
        ELSE s[i]]

(* str.replace(old, new), old non-empty *)
RECURSIVE replace(_, _, _)
replace(s, old, new) ==
    IF Len(s) < Len(old) THEN s
    ELSE IF SubSeq(s, 1, Len(old)) = old
         THEN new \o replace(SubSeq(s, Len(old) + 1, Len(s)), old, new)
         ELSE <<s[1]>> \o replace(Tail(s), old, new)

(* list[k] with Python's negative indices; IndexError when not InRange *)
InRange(seq, k) == (-Len(seq)) <= k /\ k < Len(seq)
Item(seq, k) == IF k >= 0 THEN seq[k + 1] ELSE seq[Len(seq) + k + 1]

(* sep.join(parts) *)
RECURSIVE join(_, _)
join(sep, parts) ==
    IF Len(parts) = 0 THEN <<>>
    ELSE IF Len(parts) = 1 THEN parts[1]
    ELSE parts[1] \o sep \o join(sep, Tail(parts))

(* filter(None, parts): the truthy (non-empty) elements, in order *)
RECURSIVE filterNone(_)
filterNone(parts) ==
    IF Len(parts) = 0 THEN <<>>
    ELSE IF Len(parts[1]) = 0 THEN filterNone(Tail(parts))
    ELSE <<parts[1]>> \o filterNone(Tail(parts))

(* dict helpers *)
Has(d, k) == k \in DOMAIN d
Get(d, k) == IF k \in DOMAIN d THEN d[k] ELSE None
Put(d, k, v) == (k :> v) @@ d
EmptyDict == [k \in {} |-> None]
Truthy(d) == DOMAIN d # {}

(* the ordered dictionary of types *)
Titles(c) == {c[i].title : i \in 1..Len(c)}
Lookup(c, t) == c[CHOOSE i \in 1..Len(c) : c[i].title = t].def
SetItem(c, t, d) ==
    IF t \in Titles(c)
    THEN [i \in 1..Len(c) |-> IF c[i].title = t THEN [title |-> t, def |-> d] ELSE c[i]]
    ELSE Append(c, [title |-> t, def |-> d])

(***************************************************************************)
(* Inputs: the parsed document `data` and the command-line flags.          *)
(* A document holds up to MaxTypes of the type definitions below, in any   *)
(* order, under a swagger marker, an openapi marker, or no marker.         *)
(***************************************************************************)
MaxTypes == 2

(* titles and values of the input documents *)
s_2_0 == <<"2", ".", "0">>
s_3_0_0 == <<"3", ".", "0", ".", "0">>
t_Pet == <<"P", "e", "t">>
t_abc == <<"a", ".", "b", ".", "c">>
t_aP == <<"a", ".", "P">>
t_Foo == <<"a", ".", "b", ".", "k", "u", "b", "e", "r", "n", "e", "t", "e", "s", ".", "p", "k", "g", ".", "c", ".", "F", "o", "o">>
t_Pod == <<"i", "o", ".", "k", "8", "s", ".", "a", "p", "i", ".", "c", "o", "r", "e", ".", "v", "1", ".", "P", "o", "d">>
t_Deployment == <<"i", "o", ".", "k", "8", "s", ".", "a", "p", "i", ".", "a", "p", "p", "s", ".", "v", "1", ".", "D", "e", "p", "l", "o", "y", "m", "e", "n", "t">>
t_JSONSchemaProps == <<"i", "o", ".", "k", "8", "s", ".", "E", "x", "t", ".", "V", "1", "b", "e", "t", "a", "1", ".", "J", "S", "O", "N", "S", "c", "h", "e", "m", "a", "P", "r", "o", "p", "s">>
t_Bare == <<"i", "o", ".", "k", "8", "s", ".", "a", "p", "i", ".", "c", "o", "r", "e", ".", "v", "1", ".", "B", "a", "r", "e">>
t_Broken == <<"x", ".", "y", ".", "z", ".", "B", "r", "o", "k", "e", "n">>
t_NoVer == <<"x", ".", "y", ".", "z", ".", "N", "o", "V", "e", "r">>
t_Linked == <<"x", ".", "y", ".", "z", ".", "L", "i", "n", "k", "e", "d">>
s_v1 == <<"v", "1">>
s_apps == <<"a", "p", "p", "s">>
s_Pod == <<"P", "o", "d">>
s_Deployment == <<"D", "e", "p", "l", "o", "y", "m", "e", "n", "t">>
s_c == <<"c">>
s_Broken == <<"B", "r", "o", "k", "e", "n">>
s_NoVer == <<"N", "o", "V", "e", "r">>

GVK == "x-kubernetes-group-version-kind"
StringProp == ("type" :> "string")
IntOrStringProp == ("type" :> "string" @@ "format" :> "int-or-string")
KubeExt(g, v, k) == ("group" :> g @@ "version" :> v @@ "kind" :> k)
TopLevelProps == ("kind" :> StringProp @@ "apiVersion" :> StringProp)
s_apps_v1 == s_apps \o s_slash \o s_v1

(* where a document of the family keeps its types, as a $ref writes it *)
RefRoot(family) == IF family = "openapi" THEN s_components_schemas ELSE s_definitions_ptr

Catalog(family) == <<
    [title |-> t_Pet,
     def |-> ("properties" :> ("name" :> StringProp))],
    [title |-> t_abc,
     def |-> ("properties" :> TopLevelProps
              @@ GVK :> <<KubeExt(None, s_v1, s_c)>>)],
    [title |-> t_aP,
     def |-> ("properties" :> EmptyDict)],
    [title |-> t_Foo,
     def |-> ("properties" :> ("name" :> StringProp))],
    [title |-> t_Pod,
     def |-> ("properties" :> (TopLevelProps @@ "port" :> IntOrStringProp)
              @@ GVK :> <<KubeExt(None, s_v1, s_Pod), KubeExt(None, s_v1, s_Pod)>>)],
    [title |-> t_Deployment,
     def |-> ("properties" :> ("kind" :> StringProp
                               @@ "apiVersion" :> ("type" :> "string" @@ "enum" :> <<s_apps_v1>>))
              @@ "additionalProperties" :> TRUE
              @@ GVK :> <<KubeExt(s_apps, s_v1, s_Deployment)>>)],
    [title |-> t_JSONSchemaProps,
     def |-> ("properties" :> ("name" :> StringProp))],
    [title |-> t_Bare,
     def |-> ("type" :> "string")],
    [title |-> t_Broken,
     def |-> ("properties" :> TopLevelProps
              @@ GVK :> <<("version" :> s_v1 @@ "kind" :> s_Broken)>>)],
    [title |-> t_NoVer,
     def |-> ("properties" :> ("apiVersion" :> StringProp)
              @@ GVK :> <<KubeExt(s_apps, None, s_NoVer)>>)],
    [title |-> t_Linked,
     def |-> ("properties" :> ("owner" :> ("$ref" :> RefRoot(family) \o t_Pet)))]
>>

NCatalog == Len(Catalog("swagger"))

Picks ==
    UNION {{p \in [1..n -> 1..NCatalog] : \A i, j \in 1..n : i # j => p[i] # p[j]}
           : n \in 0..MaxTypes}

Container(family, p) == [i \in 1..Len(p) |-> Catalog(family)[p[i]]]

Document(family, p) ==
    CASE family = "swagger" -> ("swagger" :> s_2_0 @@ "definitions" :> Container(family, p))
      [] family = "openapi" -> ("openapi" :> s_3_0_0
                                @@ "components" :> ("schemas" :> Container(family, p)))
      [] OTHER -> ("definitions" :> Container(family, p))

Documents == {Document(family, p) : family \in {"swagger", "openapi", "none"}, p \in Picks}

(***************************************************************************)
(* State of one run of process().                                          *)
(***************************************************************************)
VARIABLES
    data,            \* the parsed document
    stand_alone, expanded, kubernetes, strict, only_top_level,   \* flags
    version,         \* data.get("swagger") or data.get("openapi")
    components,      \* the components container, mutated in place
    types,           \* titles that will be listed in all.json
    files,           \* the files opened for writing, in order
    errors,          \* the error() log lines, in order
    pc,              \* position in process()
    idx,             \* position of the running for loop in `components`
    kind, full_name  \* locals of the per-type loop

flags == <<stand_alone, expanded, kubernetes, strict, only_top_level>>
vars == <<data, flags, version, components, types, files, errors, pc, idx, kind, full_name>>

(* --prefix, at its default *)
prefix == s_definitions_json

pre3 == StrLess(version, s_3)

Init ==
    /\ data \in Documents
    /\ stand_alone \in BOOLEAN
    /\ expanded \in BOOLEAN
    /\ kubernetes \in BOOLEAN
    /\ strict \in BOOLEAN
    /\ only_top_level \in BOOLEAN
    /\ version = None
    /\ components = <<>>
    /\ types = <<>>
    /\ files = <<>>
    /\ errors = <<>>
    /\ pc = "start"
    /\ idx = 0
    /\ kind = None
    /\ full_name = None

(* where the per-type loop starts, or ends at once on an empty container *)
LoopPc(c) == IF Len(c) = 0 THEN "all" ELSE "types"

(* ReadVersion with the version test of line 51 lost: every document     *)
(* goes through the shared-definitions block                               *)
ReadVersion_AlwaysShared ==
    /\ pc = "start"
    /\ LET v == IF Len(Get(data, "swagger")) > 0 THEN data["swagger"]
                ELSE Get(data, "openapi")
       IN  IF Len(v) = 0
           THEN /\ pc' = "failed"
                /\ UNCHANGED <<version, components, idx>>
           ELSE /\ version' = v
                /\ components' = IF StrLess(v, s_3) THEN data["definitions"]
                                 ELSE data["components"]["schemas"]
                /\ pc' = "shared"
                /\ idx' = 1
    /\ UNCHANGED <<data, flags, types, files, errors, kind, full_name>>

(* lines 38-49: the version marker and the components container *)
ReadVersion ==
    /\ pc = "start"
    /\ LET v == IF Len(Get(data, "swagger")) > 0 THEN data["swagger"]
                ELSE Get(data, "openapi")
       IN  IF Len(v) = 0
           THEN /\ pc' = "failed"        \* ValueError
                /\ UNCHANGED <<version, components, idx>>
           ELSE /\ version' = v
                /\ components' = IF StrLess(v, s_3) THEN data["definitions"]
                                 ELSE data["components"]["schemas"]
                /\ pc' = IF StrLess(v, s_3) THEN "shared" ELSE LoopPc(components')
                /\ idx' = 1
    /\ UNCHANGED <<data, flags, types, files, errors, kind, full_name>>

IntOrStringDef == ("oneOf" :> <<("type" :> "string"), ("type" :> "integer")>>)
QuantityDef == ("oneOf" :> <<("type" :> "string"), ("type" :> "number")>>)

(* lines 51-63: the synthetic Kubernetes types *)
SharedDefinitions ==
    /\ pc = "shared"
    /\ IF kubernetes
       THEN /\ components' = SetItem(SetItem(components, t_IntOrString, IntOrStringDef),
                                     t_Quantity, QuantityDef)
            /\ pc' = "enrich"
            /\ idx' = 1
       ELSE /\ pc' = "definitions"
            /\ UNCHANGED <<components, idx>>
    /\ UNCHANGED <<data, flags, version, types, files, errors, kind, full_name>>

(* util.append_no_duplicates(obj, key, value) *)
append_no_duplicates(obj, key, value) ==
    LET old == IF Has(obj, key) THEN obj[key] ELSE <<>>
    IN  IF \E i \in 1..Len(old) : old[i] = value
        THEN Put(obj, key, old)
        ELSE Put(obj, key, Append(old, value))

(* ApiVersionOf without the filter: the slash is always there *)
ApiVersionOf_AlwaysSlash(kube_ext) ==
    join(s_slash, <<kube_ext["group"], kube_ext["version"]>>)

(* lines 75-77: "/".join(filter(None, [group, version])) *)
ApiVersionOf(kube_ext) ==
    join(s_slash, filterNone(<<kube_ext["group"], kube_ext["version"]>>))

(* lines 73-86: the loop over one type's x-kubernetes-group-version-kind *)
(* entries; ok is FALSE when an entry lacks a key the code subscripts      *)
RECURSIVE EnrichEntries(_, _)
EnrichEntries(type_properties, exts) ==
    IF Len(exts) = 0 THEN [ok |-> TRUE, properties |-> type_properties]
    ELSE LET kube_ext == Head(exts)
             wantApi == Has(type_properties, "apiVersion")
             apiOk == Has(kube_ext, "group") /\ Has(kube_ext, "version")
             p1 == IF wantApi /\ apiOk
                   THEN Put(type_properties, "apiVersion",
                            append_no_duplicates(type_properties["apiVersion"], "enum",
                                                 ApiVersionOf(kube_ext)))
                   ELSE type_properties
             wantKind == Has(p1, "kind")
             kindOk == Has(kube_ext, "kind")
             p2 == IF wantKind /\ kindOk
                   THEN Put(p1, "kind",
                            append_no_duplicates(p1["kind"], "enum", kube_ext["kind"]))
                   ELSE p1
         IN  IF wantApi /\ ~apiOk THEN [ok |-> FALSE, properties |-> type_properties]
             ELSE IF wantKind /\ ~kindOk THEN [ok |-> FALSE, properties |-> p1]
             ELSE EnrichEntries(p2, Tail(exts))

SetDef(c, i, d) == [c EXCEPT ![i].def = d]

(* lines 66-86: one iteration of the container-level enrichment loop *)
EnrichType ==
    /\ pc = "enrich"
    /\ idx <= Len(components)
    /\ LET type_name == components[idx].title
           type_def == components[idx].def
       IN  IF ~Has(type_def, "properties")
           THEN /\ errors' = Append(errors, [at |-> "enrich", title |-> type_name])
                /\ pc' = IF idx = Len(components) THEN "definitions" ELSE "enrich"
                /\ idx' = idx + 1
                /\ UNCHANGED components
           ELSE LET r == EnrichEntries(type_def["properties"], Get(type_def, GVK))
                IN  /\ components' = SetDef(components, idx,
                                            Put(type_def, "properties", r.properties))
                    /\ IF r.ok
                       THEN /\ pc' = IF idx = Len(components) THEN "definitions" ELSE "enrich"
                            /\ idx' = idx + 1
                       ELSE /\ pc' = "failed"      \* KeyError leaves process()
                            /\ UNCHANGED idx
                    /\ UNCHANGED errors
    /\ UNCHANGED <<data, flags, version, types, files, kind, full_name>>

(* util.additional_properties(data): every value that has properties and  *)
(* no additionalProperties gets additionalProperties: false               *)
Tighten(v) ==
    IF Has(v, "properties") /\ ~Has(v, "additionalProperties")
    THEN Put(v, "additionalProperties", FALSE)
    ELSE v
additional_properties(d) == [k \in DOMAIN d |-> Tighten(d[k])]
additional_properties_container(c) ==
    [i \in 1..Len(c) |-> [title |-> c[i].title, def |-> Tighten(c[i].def)]]

(* lines 87-90: container-level strictness, then _definitions.json *)
WriteDefinitions ==
    /\ pc = "definitions"
    /\ components' = IF strict THEN additional_properties_container(components)
                     ELSE components
    /\ files' = Append(files, [what |-> "definitions", name |-> s_definitions_json,
                               title |-> None,
                               content |-> ("definitions" :> components')])
    /\ pc' = LoopPc(components')
    /\ idx' = 1
    /\ UNCHANGED <<data, flags, version, types, errors, kind, full_name>>

(***************************************************************************)
(* The per-type loop, lines 95-183.                                        *)
(***************************************************************************)
title == components[idx].title
specification == components[idx].def
properties == Get(specification, "properties")
title_splitted == split(title, <<".">>[1])

(* lines 97-103: the only_top_level filter *)
NotTopLevel ==
    /\ kubernetes
    /\ only_top_level
    /\ Truthy(properties)
    /\ ~(Has(properties, "kind") /\ Has(properties, "apiVersion"))

(* lines 109-111: title_splitted[-3] and [-2] exist *)
CanExpand(ts) == InRange(ts, -3) /\ InRange(ts, -2)

(* Filename with group and version taken from each other's segment *)
Filename_SwappedSegments(ts, kube, exp) ==
    LET k == Item(ts, -1)
    IN  IF kube /\ exp
        THEN LET group == lower(Item(ts, -2))
                 api_version == lower(Item(ts, -3))
             IN  IF group \in {s_core, s_api}
                 THEN k \o s_dash \o api_version
                 ELSE k \o s_dash \o group \o s_dash \o api_version
        ELSE k

(* lines 105-118: the name of the type's schema file, without ".json" *)
Filename(ts, kube, exp) ==
    LET k == Item(ts, -1)
    IN  IF kube /\ exp
        THEN LET group == lower(Item(ts, -3))
                 api_version == lower(Item(ts, -2))
             IN  IF group \in {s_core, s_api}
                 THEN k \o s_dash \o api_version
                 ELSE k \o s_dash \o group \o s_dash \o api_version
        ELSE k

(* lines 147-157 *)
UnsupportedKinds == {
    s_jsonschemaprops, s_jsonschemapropsorarray, s_customresourcevalidation,
    s_customresourcedefinition, s_customresourcedefinitionspec,
    s_customresourcedefinitionlist, s_customresourcedefinitionspec,
    s_jsonschemapropsorstringarray, s_jsonschemapropsorbool }

(* lines 132-139: "index" is the IndexError of title_splitted[3] *)
PkgCheck(kube, ts) ==
    IF ~kube THEN "pass"
    ELSE IF ~InRange(ts, 3) THEN "index"
    ELSE IF Item(ts, 3) = s_pkg /\ Item(ts, 2) = s_kubernetes THEN "unsupported"
    ELSE "pass"

(* lines 143-159 *)
KindCheck(kube, alone, k) ==
    IF kube /\ alone /\ lower(k) \in UnsupportedKinds THEN "unsupported" ELSE "pass"

(* lines 120-124: what the loop writes into the type before the try *)
Prepared(spec) ==
    LET s1 == Put(spec, "$schema", "http://json-schema.org/schema#")
        s2 == IF Has(s1, "type") THEN s1 ELSE Put(s1, "type", "object")
    IN  IF strict THEN Put(s2, "additionalProperties", FALSE) ELSE s2

(* util.change_dict_values: every $ref gets the prefix (before 3.0) or    *)
(* becomes <Name>.json (3.0 and later)                                     *)
RewriteRef(ref, ver) ==
    IF StrLess(ver, s_3) THEN prefix \o ref
    ELSE replace(ref, s_components_schemas, <<>>) \o s_json
RewriteNode(node, ver) ==
    IF Has(node, "$ref") THEN Put(node, "$ref", RewriteRef(node["$ref"], ver)) ELSE node
change_dict_values(spec, ver) ==
    LET top == RewriteNode(spec, ver)
    IN  IF Has(top, "properties")
        THEN Put(top, "properties",
                 [p \in DOMAIN top["properties"] |-> RewriteNode(top["properties"][p], ver)])
        ELSE top

(* JsonRef.replace_refs against the output directory: a reference into    *)
(* _definitions.json resolves to a type of that file, any other reference *)
(* to the content of the file of that name                                 *)
DefinitionsOnDisk ==
    IF \E i \in 1..Len(files) : files[i].what = "definitions"
    THEN files[CHOOSE i \in 1..Len(files) : files[i].what = "definitions"].content["definitions"]
    ELSE <<>>
Resolves(ref) ==
    \/ \E i \in 1..Len(DefinitionsOnDisk) :
          ref = s_definitions_json \o s_definitions_ptr \o DefinitionsOnDisk[i].title
    \/ \E i \in 1..Len(files) : files[i].what = "schema" /\ files[i].name = ref
Referent(ref) ==
    IF \E i \in 1..Len(files) : files[i].what = "schema" /\ files[i].name = ref
    THEN files[CHOOSE i \in 1..Len(files) :
                  files[i].what = "schema" /\ files[i].name = ref].content
    ELSE DefinitionsOnDisk[CHOOSE i \in 1..Len(DefinitionsOnDisk) :
            ref = s_definitions_json \o s_definitions_ptr \o DefinitionsOnDisk[i].title].def
Refs(spec) ==
    (IF Has(spec, "$ref") THEN {spec["$ref"]} ELSE {})
    \cup (IF Has(spec, "properties")
          THEN {spec["properties"][p]["$ref"] :
                    p \in {q \in DOMAIN spec["properties"] : Has(spec["properties"][q], "$ref")}}
          ELSE {})
Inline(node) == IF Has(node, "$ref") THEN Referent(node["$ref"]) ELSE node
replace_refs(spec) ==
    LET top == Inline(spec)
    IN  IF Has(top, "properties")
        THEN Put(top, "properties",
                 [p \in DOMAIN top["properties"] |-> Inline(top["properties"][p])])
        ELSE top

(* util.replace_int_or_string on a properties mapping *)
replace_int_or_string(props) ==
    [p \in DOMAIN props |->
        IF Has(props[p], "format") /\ props[p]["format"] = "int-or-string"
        THEN ("oneOf" :> <<("type" :> "string"), ("type" :> "integer")>>)
        ELSE props[p]]

(* util.allow_null_optional_fields on a properties mapping *)
allow_null_optional_fields(props) ==
    [p \in DOMAIN props |->
        IF Has(props[p], "type") /\ props[p]["type"] \in {"string", "integer", "object"}
        THEN Put(props[p], "type", <<props[p]["type"], "null">>)
        ELSE props[p]]

(* lines 169-177: the properties of the schema that is written *)
FinishProperties(spec) ==
    LET p0 == spec["properties"]
        p1 == IF strict THEN additional_properties(p0) ELSE p0
        p2 == IF kubernetes THEN allow_null_optional_fields(replace_int_or_string(p1)) ELSE p1
    IN  Put(spec, "properties", p2)

(* lines 128-181: the body of the try for the prepared type `spec`;       *)
(* error is "none" when the schema reaches json.dump                       *)
Convert(spec, ts, k) ==
    LET rewritten == change_dict_values(spec, version)
    IN  IF PkgCheck(kubernetes, ts) # "pass"
        THEN [error |-> PkgCheck(kubernetes, ts), spec |-> spec]
        ELSE IF KindCheck(kubernetes, stand_alone, k) # "pass"
        THEN [error |-> "kind", spec |-> spec]
        ELSE IF stand_alone /\ \E r \in Refs(rewritten) : ~Resolves(r)
        THEN [error |-> "ref", spec |-> rewritten]
        ELSE LET s1 == IF stand_alone THEN replace_refs(rewritten) ELSE rewritten
             IN  [error |-> "none",
                  spec |-> IF Truthy(properties) THEN FinishProperties(s1) ELSE s1]

Advance ==
    /\ pc' = IF idx = Len(components) THEN "all" ELSE "types"
    /\ idx' = idx + 1

(* lines 97-103: a type dropped by only_top_level *)
SkipType ==
    /\ pc = "types"
    /\ NotTopLevel
    /\ Advance
    /\ UNCHANGED <<data, flags, version, components, types, files, errors, kind, full_name>>

(* ExpandError with the title recorded before the segments are looked at *)
ExpandError_RecordsType ==
    /\ pc = "types"
    /\ ~NotTopLevel
    /\ kubernetes /\ expanded /\ ~CanExpand(title_splitted)
    /\ kind' = Item(title_splitted, -1)
    /\ full_name' = kind'
    /\ types' = Append(types, title)
    /\ errors' = Append(errors, [at |-> "expand", title |-> title])
    /\ Advance
    /\ UNCHANGED <<data, flags, version, components, files>>

(* lines 104-113: a title too short for group and version *)
ExpandError ==
    /\ pc = "types"
    /\ ~NotTopLevel
    /\ kubernetes /\ expanded /\ ~CanExpand(title_splitted)
    /\ kind' = Item(title_splitted, -1)
    /\ full_name' = kind'
    /\ errors' = Append(errors, [at |-> "expand", title |-> title])
    /\ Advance
    /\ UNCHANGED <<data, flags, version, components, types, files>>

Processed ==
    /\ pc = "types"
    /\ ~NotTopLevel
    /\ ~(kubernetes /\ expanded /\ ~CanExpand(title_splitted))

(* lines 104-181: a type whose schema file is written *)
EmitType ==
    /\ Processed
    /\ LET r == Convert(Prepared(specification), title_splitted, Item(title_splitted, -1))
       IN  /\ r.error = "none"
           /\ files' = Append(files,
                  [what |-> "schema",
                   name |-> Filename(title_splitted, kubernetes, expanded) \o s_json,
                   title |-> title, content |-> r.spec])
    /\ kind' = Item(title_splitted, -1)
    /\ full_name' = Filename(title_splitted, kubernetes, expanded)
    /\ components' = SetDef(components, idx, Prepared(specification))
    /\ types' = Append(types, title)
    /\ Advance
    /\ UNCHANGED <<data, flags, version, errors>>

(* lines 104-183: a type whose try block raises; the except logs and the  *)
(* loop goes on.  A reference that does not resolve raises either in      *)
(* replace_refs or, resolved lazily, inside json.dump, when the file has   *)
(* already been opened for writing.                                        *)
FailType ==
    /\ Processed
    /\ LET r == Convert(Prepared(specification), title_splitted, Item(title_splitted, -1))
       IN  /\ r.error # "none"
           /\ errors' = Append(errors, [at |-> r.error, title |-> title])
           /\ \E opened \in IF r.error = "ref" THEN BOOLEAN ELSE {FALSE} :
                 files' = IF opened
                          THEN Append(files,
                                 [what |-> "partial",
                                  name |-> Filename(title_splitted, kubernetes, expanded) \o s_json,
                                  title |-> title, content |-> r.spec])
                          ELSE files
    /\ kind' = Item(title_splitted, -1)
    /\ full_name' = Filename(title_splitted, kubernetes, expanded)
    /\ components' = SetDef(components, idx, Prepared(specification))
    /\ types' = Append(types, title)
    /\ Advance
    /\ UNCHANGED <<data, flags, version>>

(* lines 187-193: the reference all.json holds for a listed title *)
AllRef(t) ==
    IF pre3 THEN prefix \o s_definitions_ptr \o t
    ELSE replace(t, s_components_schemas, <<>>) \o s_json

(* lines 185-195: all.json *)
WriteAll ==
    /\ pc = "all"
    /\ files' = Append(files,
           [what |-> "all", name |-> s_all_json, title |-> None,
            content |-> ("oneOf" :> [i \in 1..Len(types) |-> ("$ref" :> AllRef(types[i]))])])
    /\ pc' = "done"
    /\ UNCHANGED <<data, flags, version, components, types, errors, idx, kind, full_name>>

Next ==
    \/ ReadVersion
    \/ SharedDefinitions
    \/ EnrichType
    \/ WriteDefinitions
    \/ SkipType
    \/ ExpandError
    \/ EmitType
    \/ FailType
    \/ WriteAll

Spec == Init /\ [][Next]_vars

(***************************************************************************)
(* Vocabulary of the properties, read off the run's observable results:    *)
(* the input document, the files written, the error log.                   *)
(***************************************************************************)
Swagger == Has(data, "swagger")
OpenApi3 == ~Has(data, "swagger") /\ Has(data, "openapi")
HasMarker == Has(data, "swagger") \/ Has(data, "openapi")
InputTypes == IF Has(data, "definitions") THEN data["definitions"]
              ELSE data["components"]["schemas"]
Segments(t) == split(t, <<".">>[1])
KindOf(t) == Segments(t)[Len(Segments(t))]
SchemaFileOf(t) == \E i \in 1..Len(files) : files[i].what = "schema" /\ files[i].title = t
AnyFileOf(t) == \E i \in 1..Len(files) : files[i].title = t
Raised(t) == \E i \in 1..Len(errors) :
                errors[i].title = t /\ errors[i].at \in {"index", "unsupported", "kind", "ref"}
AllJsonRefs ==
    IF pc = "done"
    THEN {files[Len(files)].content["oneOf"][i]["$ref"] :
            i \in 1..Len(files[Len(files)].content["oneOf"])}
    ELSE {}
(* the forms a reference to type t can take in all.json *)
RefsNaming(t) == {s_definitions_json \o s_definitions_ptr \o t,
                  t \o s_json,
                  KindOf(t) \o s_json}
    \cup {files[i].name : i \in {j \in 1..Len(files) : files[j].title = t}}
ListedInAll(t) == AllJsonRefs \cap RefsNaming(t) # {}

(* C1: at the end of a run, a type whose per-type processing raised an    *)
(* error and for which no schema file was written has no entry in         *)
(* all.json.                                                               *)
C1_RaisedTypesNotListed ==
    pc = "done" =>
        \A t \in Titles(components) : (Raised(t) /\ ~AnyFileOf(t)) => ~ListedInAll(t)

DeprecatedNamespace(t) ==
    /\ Len(Segments(t)) >= 4
    /\ Segments(t)[3] = s_kubernetes
    /\ Segments(t)[4] = s_pkg
DeniedKind(t) == lower(KindOf(t)) \in UnsupportedKinds
(* C2: in Kubernetes mode a type rejected by the deprecated-namespace     *)
(* filter (segment 2 `kubernetes`, segment 3 `pkg`) or, with stand-alone  *)
(* on, by the unsupported-Kind list (compared in lower case) has no       *)
(* schema file and no entry in all.json.                                   *)
C2_RejectedTypesExcluded ==
    (pc = "done" /\ kubernetes) =>
        \A t \in Titles(components) :
            (DeprecatedNamespace(t) \/ (stand_alone /\ DeniedKind(t)))
                => (~SchemaFileOf(t) /\ ~ListedInAll(t))

(* C3: in Kubernetes mode the deprecated-namespace filter never raises on *)
(* a name of fewer than 4 segments and does not exclude it: with no other *)
(* filter in its way, its schema file is written.                          *)
C3_ShortNamesPass ==
    (pc = "done" /\ kubernetes /\ ~expanded /\ ~only_top_level /\ ~stand_alone) =>
        \A t \in Titles(components) :
            Len(Segments(t)) < 4 => (~Raised(t) /\ SchemaFileOf(t))

(* C4: for a 3.0+ document every $ref of all.json is the name of a schema *)
(* file the run wrote.                                                     *)
C4_AllRefsNameWrittenFiles ==
    (pc = "done" /\ OpenApi3) =>
        \A r \in AllJsonRefs :
            \E i \in 1..Len(files) : files[i].what = "schema" /\ files[i].name = r

(* the parts of C5: what holds of a short name, and the step over it *)
Short3(t) == Len(Segments(t)) < 3
C5_Excluded ==
    (kubernetes /\ expanded) =>
        \A t \in Titles(components) :
            Short3(t) => /\ ~AnyFileOf(t)
                         /\ \A i \in 1..Len(types) : types[i] # t
                         /\ ~ListedInAll(t)
C5_Continues ==
    (pc = "types" /\ kubernetes /\ expanded /\ Short3(components[idx].title)) =>
        /\ idx' = idx + 1
        /\ pc' = IF idx < Len(components) THEN "types" ELSE "all"
        /\ files' = files
(* C5: with Kubernetes mode and expansion on, a type whose name has fewer *)
(* than 3 segments is skipped: no file is written for it, it is not       *)
(* recorded for all.json nor listed there, and the loop moves on to the   *)
(* next type.                                                              *)
C5_ShortNamesSkipped == []C5_Excluded /\ [][C5_Continues]_vars

C5_Witness ==
    /\ pc = "done" /\ kubernetes /\ expanded
    /\ \E i, j \in 1..Len(components) :
          /\ i < j
          /\ Short3(components[i].title)
          /\ \E e \in 1..Len(errors) :
                errors[e].at = "expand" /\ errors[e].title = components[i].title
          /\ SchemaFileOf(components[j].title)

(* the parts of C6: the name the rule gives, the files and the local *)
GroupOf(t) == lower(Segments(t)[Len(Segments(t)) - 2])
ApiVersionSegment(t) == lower(Segments(t)[Len(Segments(t)) - 1])
ExpectedName(t) ==
    IF ~(kubernetes /\ expanded) THEN KindOf(t)
    ELSE IF GroupOf(t) = <<"c", "o", "r", "e">> \/ GroupOf(t) = <<"a", "p", "i">>
    THEN KindOf(t) \o <<"-">> \o ApiVersionSegment(t)
    ELSE KindOf(t) \o <<"-">> \o GroupOf(t) \o <<"-">> \o ApiVersionSegment(t)
Nameable(t) == ~(kubernetes /\ expanded) \/ Len(Segments(t)) >= 3
C6_FilesNamed ==
    /\ \A i \in 1..Len(files) :
          files[i].what = "schema" =>
              files[i].name = ExpectedName(files[i].title) \o <<".", "j", "s", "o", "n">>
    /\ (kubernetes /\ expanded) =>
          \A i \in 1..Len(files) :
              /\ files[i].title = t_Pod =>
                    files[i].name = <<"P", "o", "d", "-", "v", "1", ".", "j", "s", "o", "n">>
              /\ files[i].title = t_Deployment =>
                    files[i].name = s_Deployment \o <<"-", "a", "p", "p", "s", "-", "v", "1">>
                                        \o s_json
C6_NameComputed ==
    (pc = "types" /\ types' # types /\ Nameable(components[idx].title)) =>
        full_name' = ExpectedName(components[idx].title)
(* C6: the name of a type's schema file is the Kind when expansion is off *)
(* or the mode is not Kubernetes; with both on and at least 3 segments it *)
(* is Kind-ApiVersion when the lower-cased Group is core or api and       *)
(* Kind-Group-ApiVersion otherwise.                                        *)
C6_FilenameOfType == []C6_FilesNamed /\ [][C6_NameComputed]_vars

C6_Witness ==
    /\ kubernetes /\ expanded
    /\ \E i, j, k \in 1..Len(files) :
          /\ files[i].what = "schema" /\ files[i].title = t_Deployment
          /\ files[j].what = "schema" /\ files[j].title = t_Pod
          /\ files[k].what = "schema" /\ files[k].title = t_IntOrString

(* C7: for a document with a version marker, no error in enriching,       *)
(* rewriting or dereferencing a single type aborts the run.                *)
C7_NeverAborts == HasMarker => pc # "failed"

DefinitionsWrites == {i \in 1..Len(files) : files[i].what = "definitions"}
AllWrites == {i \in 1..Len(files) : files[i].what = "all"}
(* C8: a pre-3.0 run writes _definitions.json exactly once, after the     *)
(* container-level enrichment and strictness and before any per-type file *)
(* or dereferencing, and writes all.json last; a 3.0+ run never writes    *)
(* _definitions.json.                                                      *)
C8_PersistenceOrder ==
    /\ OpenApi3 => DefinitionsWrites = {}
    /\ Cardinality(DefinitionsWrites) <= 1
    /\ DefinitionsWrites # {} => pc \in {"types", "all", "done"}
    /\ (Swagger /\ pc \in {"types", "all", "done"}) => DefinitionsWrites = {1}
    /\ \A i \in DefinitionsWrites :
          LET written == files[i].content["definitions"]
          IN  /\ kubernetes => {t_IntOrString, t_Quantity} \subseteq Titles(written)
              /\ strict => \A k \in 1..Len(written) :
                    Has(written[k].def, "properties")
                        => Has(written[k].def, "additionalProperties")
              /\ \A k \in 1..Len(written) : ~Has(written[k].def, "$schema")
    /\ AllWrites = IF pc = "done" THEN {Len(files)} ELSE {}

C8_Witness ==
    /\ pc = "done" /\ Swagger /\ kubernetes /\ strict /\ stand_alone
    /\ Len(files) >= 4
    /\ files[1].what = "definitions"
    /\ files[2].what = "schema"
    /\ files[3].what = "schema"
    /\ files[Len(files)].what = "all"

LacksBoth(d) ==
    ~Has(d, "properties") \/ (~Has(d["properties"], "kind") /\ ~Has(d["properties"], "apiVersion"))
(* C9: with Kubernetes mode and only_top_level on, every type whose       *)
(* properties lack both kind and apiVersion (absent and empty properties  *)
(* included) is skipped: no schema file and no entry in all.json.          *)
C9_OnlyTopLevel ==
    (pc = "done" /\ kubernetes /\ only_top_level) =>
        \A i \in 1..Len(components) :
            LacksBoth(components[i].def)
                => (~AnyFileOf(components[i].title) /\ ~ListedInAll(components[i].title))

(* container-level enum injection (Kubernetes mode, pre-3.0) *)
Range(s) == {s[i] : i \in 1..Len(s)}
NoDuplicates(s) == \A i, j \in 1..Len(s) : i # j => s[i] # s[j]
EnumOf(d, p) == IF Has(d["properties"][p], "enum") THEN d["properties"][p]["enum"] ELSE <<>>
Entries(d) == IF Has(d, GVK) THEN Range(d[GVK]) ELSE {}
(* the enrichment loop has gone past position i of the container *)
Enriched(i) ==
    /\ Swagger /\ kubernetes
    /\ \/ pc \in {"enrich", "failed"} /\ i < idx
       \/ pc \in {"definitions", "types", "all", "done"}

ClaimedApiVersion(e) ==
    IF e["group"] = <<>> THEN e["version"] ELSE e["group"] \o <<"/">> \o e["version"]
AmendedApiVersion(e) ==
    IF e["group"] = <<>> THEN e["version"]
    ELSE IF e["version"] = <<>> THEN e["group"]
    ELSE e["group"] \o <<"/">> \o e["version"]
Injected(e, p) == IF p = "apiVersion" THEN AmendedApiVersion(e) ELSE e["kind"]

=============================================================================
